---- MODULE Spec2Model ----
(***************************************************************************)
(* Model of src/credible_users.py: the cursor-paginated fetch of one       *)
(* Airtable view (fetch_view_records) and the script body that flattens,   *)
(* groups, sums, sorts, filters and computes the shares of the pie chart.  *)
(***************************************************************************)
EXTENDS Integers, Sequences, FiniteSets, TLC

VARIABLES
    pc,             \* position in the script
    params,         \* params["offset"] of the next GET; NoToken when the key is absent
    out,            \* the raw records accumulated by the loop (list `out`)
    sent,           \* history: the offset carried by each request issued
    served,         \* history: the response to each request issued
    df,             \* the frame fetch_view_records returned
    msgs,           \* the st.error / st.info / st.warning boxes shown, in order
    grouped,        \* the grouped sums before sort_values (groupby(...).sum().reset_index())
    chart_df,       \* chart_df
    selected,       \* the multiselect's selection
    filtered,       \* filtered[["program", "users"]]
    total,          \* total
    percent,        \* filtered["percent"]; <<>> while the column does not exist
    percent_label   \* filtered["percent_label"]; <<>> while the column does not exist

vars == <<pc, params, out, sent, served, df, msgs, grouped, chart_df,
          selected, filtered, total, percent, percent_label>>

----------------------------------------------------------------------------
(* Bounds of the model *)

MaxPages == 3       \* pages a finite source serves at most
MaxPageRecs == 2    \* records per page at most
MaxRecs == 3        \* records of a RecordSet drawn directly

MaxOut == MaxPages * MaxPageRecs

----------------------------------------------------------------------------
(* Cells, records and frames *)

PROGRAM_FIELD == "Program Name"
USERS_FIELD == "Credible Users"
OTHER_FIELD == "Notes"

\* A cell: an integer, a string (a sequence of characters) or NaN/None.
Num(n) == [k |-> "num", n |-> n, s |-> <<>>]
Str(s) == [k |-> "str", n |-> 0, s |-> s]
NaN == [k |-> "nan", n |-> 0, s |-> <<>>]

\* A raw record of the response body: with or without a "fields" key.
Raw(f) == [hasFields |-> TRUE, fields |-> f]
RawNoFields == [hasFields |-> FALSE, fields |-> <<>>]

NoToken == 0

\* pd.DataFrame(): no columns, no rows.
EmptyFrame == [columns |-> {}, rows |-> <<>>]

\* rec.get("fields", {})
GetFields(rec) == IF rec.hasFields THEN rec.fields ELSE <<>>

\* [rec.get("fields", {}) for rec in out]
FieldsOf(recs) == [i \in 1..Len(recs) |-> GetFields(recs[i])]

\* pd.json_normalize over flat mappings: one row per mapping, the columns are
\* the union of the keys, a key a mapping lacks reads NaN.
JsonNormalize(maps) ==
    LET cols == UNION {DOMAIN maps[i] : i \in 1..Len(maps)}
    IN  [columns |-> cols,
         rows |-> [i \in 1..Len(maps) |->
                     [c \in cols |-> IF c \in DOMAIN maps[i] THEN maps[i][c] ELSE NaN]]]

\* df.empty: any axis of length 0.
DfEmpty(d) == Len(d.rows) = 0 \/ d.columns = {}

----------------------------------------------------------------------------
(* The remote source *)

\* Status 0 stands for requests.get raising (connection failure, timeout).
Statuses == {200, 401, 403, 404, 500, 0}

FetchRecords ==
    { Raw((PROGRAM_FIELD :> Str(<<"A">>)) @@ (USERS_FIELD :> Num(1))),
      Raw((PROGRAM_FIELD :> Str(<<"B">>))) }

RECURSIVE SeqsUpTo(_, _)
SeqsUpTo(S, n) ==
    IF n = 0 THEN {<<>>}
    ELSE LET shorter == SeqsUpTo(S, n - 1)
         IN  shorter \cup {Append(s, x) : s \in {t \in shorter : Len(t) = n - 1}, x \in S}

\* The continuation token a source answers a request carrying `offset` with,
\* when it has a further page: a finite source serves at most MaxPages pages,
\* an endless one cycles through MaxPages cursors.
SourceTokens(offset, finite) ==
    IF finite
    THEN IF offset + 1 < MaxPages THEN {offset + 1} ELSE {}
    ELSE {(offset % MaxPages) + 1}

\* The responses the source may give to a request carrying `offset`.
Responses(offset, finite, room) ==
    { [status |-> st, records |-> <<>>, offset |-> NoToken] : st \in Statuses \ {200} }
    \cup
    { [status |-> 200, records |-> recs, offset |-> tok] :
        recs \in {r \in SeqsUpTo(FetchRecords, MaxPageRecs) : Len(r) <= room},
        tok \in {NoToken} \cup SourceTokens(offset, finite) }

\* The histories keep the first MaxPages entries.
AppendCap(s, x) == IF Len(s) < MaxPages THEN Append(s, x) ELSE s

----------------------------------------------------------------------------
(* fetch_view_records *)

\* Lines 76-84: the statuses answered with st.error and an empty frame.
ErrorText(status) ==
    CASE status = 401 -> "401 Unauthorized"
      [] status = 403 -> "403 Forbidden"
      [] status = 404 -> "404 Not Found"

Handled(status) == status \in {401, 403, 404}

\* r.raise_for_status(), and requests.get raising.
Raises(status) == status = 0 \/ (status >= 400 /\ ~Handled(status))

\* Mutation of ErrorFrame: the records accumulated so far are returned.
ErrorFramePartial(acc) == JsonNormalize(FieldsOf(acc))

\* return pd.DataFrame() of lines 78, 81, 84
ErrorFrame(acc) == EmptyFrame

\* out.extend(data.get("records", []))
Extend(acc, recs) == acc \o recs

\* Mutation of NextOffset: the first token is kept for every later request.
NextOffsetStale(prev, resp) == IF prev = NoToken THEN resp.offset ELSE prev

\* Lines 88-91: params["offset"] = data["offset"] when the body has the key.
NextOffset(prev, resp) == resp.offset

\* One iteration of the while loop, lines 75-91.
Request(finite) ==
    /\ pc = "fetch"
    /\ \E resp \in Responses(params, finite, MaxOut - Len(out)) :
         /\ sent' = AppendCap(sent, params)
         /\ served' = AppendCap(served, resp)
         /\ IF Handled(resp.status)
            THEN /\ msgs' = Append(msgs, [level |-> "error", text |-> ErrorText(resp.status)])
                 /\ df' = ErrorFrame(out)
                 /\ pc' = "classify"
                 /\ UNCHANGED <<out, params>>
            ELSE IF Raises(resp.status)
            THEN /\ pc' = "raised"
                 /\ UNCHANGED <<out, params, df, msgs>>
            ELSE /\ out' = Extend(out, resp.records)
                 /\ IF resp.offset # NoToken
                    THEN /\ params' = NextOffset(params, resp)
                         /\ pc' = "fetch"
                    ELSE /\ params' = params
                         /\ pc' = "flatten"
                 /\ UNCHANGED <<df, msgs>>
    /\ UNCHANGED <<grouped, chart_df, selected, filtered, total, percent, percent_label>>

\* Line 92 and the assignment of line 94.
ReturnFrame ==
    /\ pc = "flatten"
    /\ df' = JsonNormalize(FieldsOf(out))
    /\ pc' = "classify"
    /\ UNCHANGED <<params, out, sent, served, msgs, grouped, chart_df,
                   selected, filtered, total, percent, percent_label>>


----------------------------------------------------------------------------
(* The script body after the fetch, lines 96-130 *)

Info(t) == [level |-> "info", text |-> t]
Warning(t) == [level |-> "warning", text |-> t]

Digits == <<"0", "1", "2", "3", "4", "5", "6", "7", "8", "9">>

IsDigit(c) == \E i \in 1..Len(Digits) : Digits[i] = c

DigitValue(c) == (CHOOSE i \in 1..Len(Digits) : Digits[i] = c) - 1

RECURSIVE DigitsValue(_)
DigitsValue(s) ==
    IF Len(s) = 0 THEN 0
    ELSE 10 * DigitsValue(SubSeq(s, 1, Len(s) - 1)) + DigitValue(s[Len(s)])

AllDigits(s) == Len(s) > 0 /\ \A i \in 1..Len(s) : IsDigit(s[i])

\* pd.to_numeric(..., errors="coerce") on one cell: a number stays, a string
\* that reads as a decimal integer is parsed, anything else becomes NaN.
ToNumeric(cell) ==
    IF cell.k = "num" THEN cell
    ELSE IF cell.k = "str" /\ AllDigits(cell.s) THEN Num(DigitsValue(cell.s))
    ELSE IF cell.k = "str" /\ Len(cell.s) > 1 /\ cell.s[1] = "-" /\ AllDigits(Tail(cell.s))
         THEN Num(0 - DigitsValue(Tail(cell.s)))
    ELSE NaN

\* .fillna(0)
FillNa(cell) == IF cell.k = "nan" THEN Num(0) ELSE cell

\* Lines 102-103: dfx, the two columns, the users column numeric.
Dfx(d) ==
    [i \in 1..Len(d.rows) |->
        [program |-> d.rows[i][PROGRAM_FIELD],
         users |-> FillNa(ToNumeric(d.rows[i][USERS_FIELD])).n]]

\* The characters of the model's strings, in code point order.
Alphabet == <<"-", "0", "1", "2", "3", "4", "5", "6", "7", "8", "9", "A", "B", "x">>

CharRank(c) == CHOOSE i \in 1..Len(Alphabet) : Alphabet[i] = c

RECURSIVE StrLess(_, _)
StrLess(a, b) ==
    IF Len(b) = 0 THEN FALSE
    ELSE IF Len(a) = 0 THEN TRUE
    ELSE IF a[1] = b[1] THEN StrLess(Tail(a), Tail(b))
    ELSE CharRank(a[1]) < CharRank(b[1])

\* The order groupby (sort=True) gives its keys: ascending, the NaN key last.
KeyLess(a, b) ==
    /\ a.k = "str"
    /\ (b.k = "nan" \/ (b.k = "str" /\ StrLess(a.s, b.s)))

\* All missing categories are one key.
KeyOf(cell) == IF cell.k = "nan" THEN NaN ELSE cell

\* Mutation of GroupKeys: groupby with its default dropna=True.
GroupKeysDropNa(rows) == {KeyOf(rows[i].program) : i \in 1..Len(rows)} \ {NaN}

\* groupby(PROGRAM_FIELD, dropna=False): the keys, the missing one included.
GroupKeys(rows) == {KeyOf(rows[i].program) : i \in 1..Len(rows)}

RECURSIVE SortKeys(_)
SortKeys(S) ==
    IF S = {} THEN <<>>
    ELSE LET least == CHOOSE k \in S : \A o \in S \ {k} : KeyLess(k, o)
         IN  <<least>> \o SortKeys(S \ {least})

RECURSIVE SumUsers(_)
SumUsers(rows) ==
    IF Len(rows) = 0 THEN 0 ELSE rows[1].users + SumUsers(Tail(rows))

IsKey(row, key) == KeyOf(row.program) = key

\* [USERS_FIELD].sum().reset_index().rename(...): one row per key, in key order.
GroupSum(rows) ==
    LET keys == SortKeys(GroupKeys(rows))
    IN  [i \in 1..Len(keys) |->
            [program |-> keys[i],
             users |-> SumUsers(SelectSeq(rows, LAMBDA r : IsKey(r, keys[i])))]]

Perms(n) == {p \in [1..n -> 1..n] : \A i, j \in 1..n : p[i] = p[j] => i = j}

\* .sort_values("users", ascending=False) with the default kind="quicksort",
\* which is not a stable sort: every descending arrangement of the rows is an
\* outcome, rows of equal users in any order.
SortValues(rows) ==
    { [i \in 1..Len(rows) |-> rows[p[i]]] : p \in
        {q \in Perms(Len(rows)) :
            \A i \in 1..Len(rows) - 1 : rows[q[i]].users >= rows[q[i + 1]].users} }

\* chart_df["program"].tolist()
Options(rows) == {rows[i].program : i \in 1..Len(rows)}

\* chart_df[chart_df["program"].isin(selected)]
Filter(rows, sel) == SelectSeq(rows, LAMBDA r : r.program \in sel)

\* Mutation of ZeroTotal: the zero total is not checked.
ZeroTotalUnchecked(t) == FALSE

\* Line 125
ZeroTotal(t) == t = 0

Abs(n) == IF n < 0 THEN 0 - n ELSE n

RECURSIVE Gcd(_, _)
Gcd(a, b) == IF b = 0 THEN a ELSE Gcd(b, a % b)

\* The quotient n / d as a fraction in lowest terms with a positive
\* denominator; a zero denominator (inf or nan in floating point) is kept.
Rat(n, d) ==
    IF d = 0 THEN [num |-> IF n > 0 THEN 1 ELSE IF n < 0 THEN 0 - 1 ELSE 0, den |-> 0]
    ELSE LET g == Gcd(Abs(n), Abs(d))
             sgn == IF d < 0 THEN 0 - 1 ELSE 1
         IN  [num |-> sgn * (n \div g), den |-> sgn * (d \div g)]

\* Mutation of Percent: the share of the total of all rows, not of the selection.
PercentOfAll(users, t) == Rat(users, SumUsers(chart_df))

\* Mutation of Percent: the share as a percentage.
PercentTimes100(users, t) == Rat(users * 100, t)

\* Line 129: filtered["users"] / total
Percent(users, t) == Rat(users, t)

\* Round a / b (b > 0) to the nearest integer, halves to the even one.
RoundHalfEven(a, b) ==
    LET q == a \div b
        r == a % b
    IN  IF 2 * r < b THEN q
        ELSE IF 2 * r > b THEN q + 1
        ELSE IF q % 2 = 0 THEN q ELSE q + 1

\* Line 130: (percent * 100).round(1).astype(str) + "%". The quotient is a
\* float, so a zero keeps the sign of the division.
PercentLabel(users, t) ==
    IF t = 0 THEN (IF users = 0 THEN "nan%" ELSE IF users > 0 THEN "inf%" ELSE "-inf%")
    ELSE LET p == Rat(users, t)
             tenths == RoundHalfEven(p.num * 1000, p.den)
             neg == tenths < 0 \/ (tenths = 0 /\ (p.num < 0 \/ (users = 0 /\ t < 0)))
         IN  (IF neg THEN "-" ELSE "") \o ToString(Abs(tenths) \div 10) \o "."
                \o ToString(Abs(tenths) % 10) \o "%"

\* Lines 97-111: the empty and missing-field branches, else the aggregation.
Classify ==
    /\ pc = "classify"
    /\ IF DfEmpty(df)
       THEN /\ msgs' = Append(msgs, Info("This view returned no rows (or failed to fetch)."))
            /\ pc' = "end"
            /\ UNCHANGED <<grouped, chart_df>>
       ELSE IF PROGRAM_FIELD \notin df.columns \/ USERS_FIELD \notin df.columns
       THEN /\ msgs' = Append(msgs, Warning("Missing fields"))
            /\ pc' = "end"
            /\ UNCHANGED <<grouped, chart_df>>
       ELSE /\ grouped' = GroupSum(Dfx(df))
            /\ chart_df' \in SortValues(grouped')
            /\ pc' = "select"
            /\ msgs' = msgs
    /\ UNCHANGED <<params, out, sent, served, df, selected, filtered, total,
                   percent, percent_label>>

\* Lines 114-130: the selection, the filter, the zero-total stop, the shares.
Select ==
    /\ pc = "select"
    /\ \E sel \in SUBSET Options(chart_df) :
         /\ selected' = sel
         /\ IF sel = {}
            THEN /\ msgs' = Append(msgs, Info("Select at least one program."))
                 /\ pc' = "end"
                 /\ UNCHANGED <<filtered, total, percent, percent_label>>
            ELSE LET f == Filter(chart_df, sel)
                     t == SumUsers(f)
                 IN  /\ filtered' = f
                     /\ total' = t
                     /\ IF ZeroTotal(t)
                        THEN /\ msgs' = Append(msgs, Info("Selected programs sum to zero users."))
                             /\ pc' = "end"
                             /\ UNCHANGED <<percent, percent_label>>
                        ELSE /\ percent' = [i \in 1..Len(f) |-> Percent(f[i].users, t)]
                             /\ percent_label' = [i \in 1..Len(f) |-> PercentLabel(f[i].users, t)]
                             /\ pc' = "rendered"
                             /\ msgs' = msgs
    /\ UNCHANGED <<params, out, sent, served, df, grouped, chart_df>>

----------------------------------------------------------------------------
(* Specifications *)

Blank ==
    /\ params = NoToken
    /\ sent = <<>>
    /\ served = <<>>
    /\ df = EmptyFrame
    /\ msgs = <<>>
    /\ grouped = <<>>
    /\ chart_df = <<>>
    /\ selected = {}
    /\ filtered = <<>>
    /\ total = 0
    /\ percent = <<>>
    /\ percent_label = <<>>

\* The script run against a source that ends its pagination.
Init ==
    /\ pc = "fetch"
    /\ out = <<>>
    /\ Blank

Next == Request(TRUE) \/ ReturnFrame \/ Classify \/ Select

Spec == Init /\ [][Next]_vars

\* The script run against a source that may never omit the token. The script
\* is sequential: whenever it can take a step it does.
NextAny == Request(FALSE) \/ ReturnFrame \/ Classify \/ Select

FairSpec == Init /\ [][NextAny]_vars /\ WF_vars(NextAny)

\* The records the aggregation is checked on.
AggCategories == {Str(<<"A">>), Str(<<"B">>)}
AggValues == {Num(0 - 1), Str(<<"1">>), Str(<<"x">>)}

AggRecords ==
    {RawNoFields, Raw(<<>>), Raw(OTHER_FIELD :> Str(<<"x">>))}
    \cup {Raw(PROGRAM_FIELD :> c) : c \in AggCategories}
    \cup {Raw(USERS_FIELD :> v) : v \in AggValues}
    \cup {Raw((PROGRAM_FIELD :> c) @@ (USERS_FIELD :> v)) : c \in AggCategories, v \in AggValues}

\* The script from the end of a successful fetch, for every RecordSet.
AggInit ==
    /\ pc = "flatten"
    /\ out \in SeqsUpTo(AggRecords, MaxRecs)
    /\ Blank

AggNext == ReturnFrame \/ Classify \/ Select

AggSpec == AggInit /\ [][AggNext]_vars

----------------------------------------------------------------------------
(* Vocabulary of the properties *)

\* The fetch ended on a failing request.
FetchFailed == Len(served) >= 1 /\ served[Len(served)].status # 200

\* The fetch ended on a page without a continuation token.
FetchSucceeded ==
    /\ pc # "fetch"
    /\ Len(served) >= 1
    /\ served[Len(served)].status = 200

RECURSIVE ConcatRecords(_)
ConcatRecords(pages) ==
    IF Len(pages) = 0 THEN <<>>
    ELSE pages[1].records \o ConcatRecords(Tail(pages))

\* The RecordSet: the field mappings of the fetched records, in order.
RecordSet == FieldsOf(out)

\* The script is past the two early branches and has aggregated.
Aggregated ==
    /\ pc \in {"select", "rendered", "end"}
    /\ ~DfEmpty(df)
    /\ PROGRAM_FIELD \in df.columns
    /\ USERS_FIELD \in df.columns

\* The category of a Record: its category cell, or the blank bucket.
CategoryOf(m) ==
    IF PROGRAM_FIELD \in DOMAIN m /\ m[PROGRAM_FIELD].k # "nan"
    THEN m[PROGRAM_FIELD] ELSE NaN

\* The numeric value of a Record: 0 when the value is missing or not a number.
NumericOf(m) ==
    IF USERS_FIELD \in DOMAIN m /\ ToNumeric(m[USERS_FIELD]).k = "num"
    THEN ToNumeric(m[USERS_FIELD]).n ELSE 0

RECURSIVE SumNumeric(_)
SumNumeric(ms) ==
    IF Len(ms) = 0 THEN 0 ELSE NumericOf(ms[1]) + SumNumeric(Tail(ms))

InCategory(ms, c) == SelectSeq(ms, LAMBDA m : CategoryOf(m) = c)

Position(rows, c) == CHOOSE i \in 1..Len(rows) : rows[i].program = c

MissingShown == \E i \in 1..Len(msgs) : msgs[i] = Warning("Missing fields")

\* Sum of the fractions fs, times the product of their denominators.
RECURSIVE DenProduct(_)
DenProduct(fs) == IF Len(fs) = 0 THEN 1 ELSE fs[1].den * DenProduct(Tail(fs))

RECURSIVE ScaledSum(_, _)
ScaledSum(fs, d) ==
    IF Len(fs) = 0 THEN 0 ELSE fs[1].num * (d \div fs[1].den) + ScaledSum(Tail(fs), d)

InUnit(f) == f.den > 0 /\ 0 <= f.num /\ f.num <= f.den

----------------------------------------------------------------------------
(* Properties *)

\* C1: against a source answering with pages P1..Pn, the last one alone
\* without a token, the fetch issues exactly n requests, the first without a
\* token and each later one with the token of the response before it, none
\* after Pn, and returns the records of P1..Pn in page order and, within a
\* page, in response order.
C1_Pagination ==
    /\ Len(sent) = Len(served)
    /\ (Len(served) >= 1 /\ served[Len(served)].status = 200
          /\ served[Len(served)].offset = NoToken) => pc # "fetch"
    /\ FetchSucceeded =>
         LET n == Len(served)
             recs == ConcatRecords(served)
         IN  /\ sent[1] = NoToken
             /\ \A i \in 2..n : sent[i] = served[i - 1].offset
             /\ \A i \in 1..(n - 1) : served[i].status = 200 /\ served[i].offset # NoToken
             /\ served[n].offset = NoToken
             /\ out = recs
             /\ pc # "flatten" =>
                  /\ Len(df.rows) = Len(recs)
                  /\ \A i \in 1..Len(recs) : \A c \in df.columns :
                       df.rows[i][c] = IF c \in DOMAIN GetFields(recs[i])
                                       THEN GetFields(recs[i])[c] ELSE NaN

\* Three pages of two records each have been fetched and returned.
C1_Witness ==
    /\ pc = "classify"
    /\ Len(served) = 3
    /\ \A i \in 1..3 : served[i].status = 200 /\ Len(served[i].records) = 2
    /\ Len(df.rows) = 6
    /\ served[1].records[1] # served[1].records[2]

\* C2: every fetch failure reaches the caller as an outcome it can tell from
\* a successful fetch of a view with no records: an exception, or a frame
\* other than the one an empty view gives.
C2_FailureDistinct ==
    (FetchFailed /\ pc # "fetch") =>
        (pc = "raised" \/ df # JsonNormalize(FieldsOf(<<>>)))

\* C3: a failing page request ends the fetch there, no request follows it,
\* and no record of the pages before it is returned to or aggregated by the
\* caller.
C3_AllOrNothing ==
    FetchFailed =>
        /\ pc \in {"raised", "classify", "end"}
        /\ Len(sent) = Len(served)
        /\ \A i \in 1..(Len(served) - 1) : served[i].status = 200
        /\ Len(df.rows) = 0
        /\ grouped = <<>>
        /\ chart_df = <<>>
        /\ filtered = <<>>

\* The third request failed after two pages of records, and the script ended.
C3_Witness ==
    /\ FetchFailed
    /\ Len(served) = 3
    /\ Len(out) >= 2
    /\ Handled(served[3].status)
    /\ pc = "end"

\* C4: the fetch always terminates, also against a source that never omits
\* the continuation token.
C4_Terminates == <>(pc # "fetch")

C6_Shares ==
    LET incl == SelectSeq(grouped, LAMBDA r : r.program \in selected)
        n == Len(filtered)
    IN  /\ (pc \in {"rendered", "end"} /\ selected # {} /\ SumUsers(incl) # 0)
              => pc = "rendered"
        /\ pc = "rendered" =>
              /\ {filtered[i] : i \in 1..n} = {incl[i] : i \in 1..Len(incl)}
              /\ n = Len(incl)
              /\ total = SumUsers(incl)
              /\ Len(percent) = n
              /\ Len(percent_label) = n
              /\ \A i \in 1..n :
                    /\ percent[i].den # 0
                    /\ percent[i].num * total = filtered[i].users * percent[i].den
              /\ n = 1 => (percent[1] = [num |-> 1, den |-> 1] /\ percent_label[1] = "100.0%")
              /\ ScaledSum(percent, DenProduct(percent)) = DenProduct(percent)

\* Two categories of different shares are included and a third, of non-zero
\* total, is left out.
C6_Witness ==
    /\ pc = "rendered"
    /\ Len(filtered) = 2
    /\ Len(chart_df) = 3
    /\ percent[1] # percent[2]
    /\ SumUsers(chart_df) # total

\* C7: when the included rows sum to zero, the result set (the included rows
\* with their totals) and totalIncluded = 0 are still produced, no share is
\* computed for any row, and no division by zero is ever performed.
C7_ZeroTotal ==
    LET incl == SelectSeq(grouped, LAMBDA r : r.program \in selected)
    IN  /\ (pc \in {"rendered", "end"} /\ selected # {} /\ SumUsers(incl) = 0) =>
              /\ pc = "end"
              /\ Len(filtered) = Len(incl)
              /\ {filtered[i] : i \in 1..Len(filtered)} = {incl[i] : i \in 1..Len(incl)}
              /\ total = 0
              /\ percent = <<>>
              /\ percent_label = <<>>
        /\ \A i \in 1..Len(percent) : percent[i].den # 0

\* Two categories of non-zero totals that cancel are included.
C7_Witness ==
    /\ pc = "end"
    /\ Len(filtered) = 2
    /\ filtered[1].users # 0
    /\ total = 0
    /\ percent = <<>>

\* C8: MissingField is signaled exactly when the RecordSet is non-empty and
\* the category field or the value field is absent from every record,
\* records without any field included.
C8_MissingField ==
    pc \in {"select", "rendered", "end"} =>
        (MissingShown <=>
            /\ Len(RecordSet) > 0
            /\ \/ \A i \in 1..Len(RecordSet) : PROGRAM_FIELD \notin DOMAIN RecordSet[i]
               \/ \A i \in 1..Len(RecordSet) : USERS_FIELD \notin DOMAIN RecordSet[i])

\* C9: aggregation drops no record: records without a category are summed in
\* the blank bucket, a missing or non-numeric value counts 0, and the totals
\* of the unfiltered rows sum to the numeric values of all records.
C9_NothingDropped ==
    Aggregated =>
        LET blank == InCategory(RecordSet, NaN)
        IN  /\ SumUsers(chart_df) = SumNumeric(RecordSet)
            /\ Len(blank) > 0 =>
                 \E i \in 1..Len(chart_df) :
                    /\ chart_df[i].program = NaN
                    /\ chart_df[i].users = SumNumeric(blank)

\* A record without a category but with a value, one with a non-numeric
\* value and one without a value have been aggregated.
C9_Witness ==
    /\ Aggregated
    /\ \E i \in 1..Len(RecordSet) :
         PROGRAM_FIELD \notin DOMAIN RecordSet[i] /\ NumericOf(RecordSet[i]) # 0
    /\ \E i \in 1..Len(RecordSet) :
         USERS_FIELD \in DOMAIN RecordSet[i] /\ ToNumeric(RecordSet[i][USERS_FIELD]).k = "nan"
    /\ \E i \in 1..Len(RecordSet) :
         PROGRAM_FIELD \in DOMAIN RecordSet[i] /\ USERS_FIELD \notin DOMAIN RecordSet[i]

\* C10 as stated: every share lies in 0..1, whatever the numeric values,
\* negative ones included.
C10_ShareInUnit == \A i \in 1..Len(percent) : InUnit(percent[i])

\* C10 amended: every share lies in 0..1 when no record's numeric value is
\* negative.
C10_ShareInUnitNonNegative ==
    (\A i \in 1..Len(RecordSet) : NumericOf(RecordSet[i]) >= 0) =>
        \A i \in 1..Len(percent) : InUnit(percent[i])

\* Shares strictly between 0 and 1 have been computed from non-negative values.
C10_Witness ==
    /\ pc = "rendered"
    /\ \A i \in 1..Len(RecordSet) : NumericOf(RecordSet[i]) >= 0
    /\ Len(percent) = 2
    /\ percent[1].num # percent[1].den
    /\ percent[2].num # 0

====
